---- MODULE Spec2Model ----
(***************************************************************************)
(* Model of rust-helper-lib: the SQL literal formatter (src/src/sql.rs,    *)
(* dbfmt_t / dbfmt / dbfmt_comp over format_value_inner) and the row       *)
(* decoder entry points (query_to_i64, query_to_string,                    *)
(* query_single_row_to_tuple, query_to_tuples).                            *)
(*                                                                         *)
(* Text is a sequence of one-character strings, so that quoting, escaping  *)
(* and timestamp formatting are computed character by character.           *)
(***************************************************************************)
EXTENDS Integers, Sequences, FiniteSets, TLC

VARIABLES
    input,      \* the value handed to the formatter (an Option<T> or a bare T)
    op,         \* the CompOp handed to dbfmt_comp
    tz_offset,  \* the process's local UTC offset in seconds (chrono::Local)
    call,       \* the formatter entry point that produced out ("none" before)
    out,        \* the String returned by the formatter
    written,    \* TRUE once the literal has been evaluated by the store
    stored,     \* the text the store holds after evaluating the literal
    readback,   \* what reading the stored text back gives
    db,         \* the data source a decoder call runs against
    d_call,     \* the decoder entry point that produced d_result ("none" before)
    d_result,   \* the Result the decoder entry point returned
    d_converted, \* positions of the rows T::try_from was invoked on, in order
    conns,      \* the connections that are open
    opened,     \* how many connections have been opened so far
    c_pc,       \* where the running decoder call is: "idle", "open" or "returned"
    c_used,     \* the connection each call so far has opened (0: the open failed)
    w_template, \* the template literal handed to where_sql!
    w_pairs,    \* the (field, value) pairs handed to where_sql!
    w_result,   \* what the where_sql! invocation gives
    p_path,     \* the path handed to path_to_agnostic_relative
    p_base,     \* the base handed to path_to_agnostic_relative
    p_result,   \* what path_to_agnostic_relative returned
    os,         \* the target_os watch_for_quit was built for
    keep_going, \* the shared flag
    tty,        \* the terminal's local-mode flags (c_lflag)
    termios,    \* the attributes watch_for_quit read at entry
    chan,       \* bytes sent on the channel and not yet received
    tx_alive,   \* the sender has not been dropped
    rx_alive,   \* the receiver has not been dropped
    key_seq,    \* the polling loop's batch
    main_pc,    \* where watch_for_quit stands
    reader_pc,  \* where key_press_watcher_linux stands
    buffer,     \* the reader's one-byte buffer
    n_input,    \* inputs delivered so far
    ended_by,   \* what ended the loop
    discarded   \* the batch the polling loop cleared last

fmt_vars == <<input, op, tz_offset, call, out, written, stored, readback>>

dec_vars == <<db, d_call, d_result, d_converted>>

conn_vars == <<conns, opened, c_pc, c_used>>

\* the variables neither the formatter nor the atomic decoder calls touch
where_vars == <<w_template, w_pairs, w_result>>

path_vars == <<p_path, p_base, p_result>>

watch_vars == <<os, keep_going, tty, termios, chan, tx_alive, rx_alive, key_seq,
                main_pc, reader_pc, buffer, n_input, ended_by, discarded>>

other_vars == <<conn_vars, where_vars, path_vars, watch_vars>>

vars == <<fmt_vars, dec_vars, other_vars>>

\* ------------------------------------------------------------------ bounds
MaxLen == 3

MaxRows == 2

MaxCalls == 2

MaxTemplate == 5

MaxPairs == 2

MaxPath == 8

MaxBase == 2

MaxInput == 3

\* -------------------------------------------------------------- text helpers
Quote == "'"

Chars == {Quote, "a", "b"}

RECURSIVE SeqsUpTo(_, _)
SeqsUpTo(S, n) ==
    IF n = 0 THEN {<< >>}
    ELSE LET shorter == SeqsUpTo(S, n - 1)
         IN  shorter \cup {Append(t, c) : t \in {u \in shorter : Len(u) = n - 1}, c \in S}

Texts == SeqsUpTo(Chars, MaxLen)

\* s starts with p
StartsWith(s, p) ==
    /\ Len(s) >= Len(p)
    /\ SubSeq(s, 1, Len(p)) = p

\* s without its first n characters
Drop(s, n) == SubSeq(s, n + 1, Len(s))

\* str::replacen(from, to, 1): only the first match is replaced
RECURSIVE replace_first_only(_, _, _)
replace_first_only(s, from, to) ==
    IF Len(s) = 0 THEN << >>
    ELSE IF StartsWith(s, from) THEN to \o Drop(s, Len(from))
    ELSE <<Head(s)>> \o replace_first_only(Tail(s), from, to)

\* str::replace(from, to): every non-overlapping match of from, left to right
RECURSIVE replace(_, _, _)
replace(s, from, to) ==
    IF Len(s) = 0 THEN << >>
    ELSE IF StartsWith(s, from) THEN to \o replace(Drop(s, Len(from)), from, to)
    ELSE <<Head(s)>> \o replace(Tail(s), from, to)

\* ------------------------------------------------------- decimal formatting
DigitChars == <<"0", "1", "2", "3", "4", "5", "6", "7", "8", "9">>

Digit(n) == DigitChars[n + 1]

\* zero-padded fields of chrono's %m %d %H %M %S and %Y
Pad2(n) == <<Digit((n \div 10) % 10), Digit(n % 10)>>

Pad4(n) == <<Digit((n \div 1000) % 10), Digit((n \div 100) % 10)>> \o Pad2(n % 100)

\* ------------------------------------------------------------------ calendar
\* proleptic Gregorian date of a day number counted from 1970-01-01
civil_from_days(z) ==
    LET zz  == z + 719468
        era == zz \div 146097
        doe == zz - era * 146097
        yoe == (doe - doe \div 1460 + doe \div 36524 - doe \div 146096) \div 365
        doy == doe - (365 * yoe + yoe \div 4 - yoe \div 100)
        mp  == (5 * doy + 2) \div 153
        d   == doy - (153 * mp + 2) \div 5 + 1
        m   == IF mp < 10 THEN mp + 3 ELSE mp - 9
        y   == yoe + era * 400 + (IF m <= 2 THEN 1 ELSE 0)
    IN  [year |-> y, month |-> m, day |-> d]

days_from_civil(y, m, d) ==
    LET yy  == IF m <= 2 THEN y - 1 ELSE y
        era == yy \div 400
        yoe == yy - era * 400
        mp  == IF m > 2 THEN m - 3 ELSE m + 9
        doy == (153 * mp + 2) \div 5 + d - 1
        doe == yoe * 365 + yoe \div 4 - yoe \div 100 + doy
    IN  era * 146097 + doe - 719468

\* seconds since the epoch of a UTC wall-clock reading
Instant(y, m, d, hh, mm, ss) ==
    days_from_civil(y, m, d) * 86400 + hh * 3600 + mm * 60 + ss

\* DateTime::format("%Y-%m-%d %H:%M:%S") of the wall clock that reads
\* wall seconds since 1970-01-01 00:00:00
format_ymd_hms(wall) ==
    LET date == civil_from_days(wall \div 86400)
        sod  == wall % 86400
    IN  Pad4(date.year) \o <<"-">> \o Pad2(date.month) \o <<"-">> \o Pad2(date.day)
        \o <<" ">> \o Pad2(sod \div 3600) \o <<":">> \o Pad2((sod % 3600) \div 60)
        \o <<":">> \o Pad2(sod % 60)


\* ---------------------------------------------------------- formatter input
\* concrete types the formatter tells apart by downcast; "Display" stands for
\* every other Display type (i32, f64, a struct with its own Display, ...)
TextTypes == {"&str", "String"}

TimeTypes == {"DateTime<Utc>", "DateTime<Local>"}

Types == TextTypes \cup TimeTypes \cup {"Display"}

\* pub enum CompOp
CompOp == {"Eq", "NEq", "Gt", "GtEq", "Lt", "LtEq"}

\* local UTC offsets the process may run under, in seconds
LocalOffsets == {0, 13 * 3600, 0 - 8 * 3600, 5 * 3600 + 1800}

\* instants (whole seconds since the epoch) the timestamps are drawn from
Instants ==
    { Instant(2023, 12, 25, 14, 30, 45),
      Instant(2023, 12, 31, 23, 59, 59),
      Instant(2024, 2, 29, 0, 0, 0),
      Instant(2024, 3, 1, 7, 5, 9),
      Instant(1970, 1, 1, 0, 0, 0),
      Instant(1999, 12, 31, 18, 30, 0) }

\* sub-second components (nanoseconds)
Nanos == {0, 500000000, 999999999}

\* a value of type ty; text is the characters of a string or the Display text,
\* secs/nanos the instant of a timestamp, offset the FixedOffset a
\* DateTime<Local> carries
TextValue(ty, t) ==
    [present |-> TRUE, ty |-> ty, text |-> t, secs |-> 0, nanos |-> 0, offset |-> 0]

TimeValue(ty, s, n, off) ==
    [present |-> TRUE, ty |-> ty, text |-> << >>, secs |-> s, nanos |-> n, offset |-> off]

\* Option::None of an Option<ty>
NoneOf(ty) ==
    [present |-> FALSE, ty |-> ty, text |-> << >>, secs |-> 0, nanos |-> 0, offset |-> 0]

Inputs(off) ==
    {TextValue(ty, t) : ty \in TextTypes \cup {"Display"}, t \in Texts}
    \cup {TimeValue("DateTime<Utc>", s, n, 0) : s \in Instants, n \in Nanos}
    \cup {TimeValue("DateTime<Local>", s, n, off) : s \in Instants, n \in Nanos}
    \cup {NoneOf(ty) : ty \in Types}

\* ------------------------------------------------------------ the formatter
DatetimeOpen == <<"d", "a", "t", "e", "t", "i", "m", "e", "(", Quote>>

DatetimeClose == <<Quote, ")">>

DatetimeCloseUtc == <<Quote, ",", " ", Quote, "u", "t", "c", Quote, ")">>

NullText == <<"N", "U", "L", "L">>

\* format_value_inner, were a local timestamp first converted to UTC (naive_utc)
format_value_inner_utc_digits(value, comparison_prefix) ==
    IF value.ty \in TextTypes
    THEN comparison_prefix \o <<Quote>> \o replace(value.text, <<Quote>>, <<Quote, Quote>>) \o <<Quote>>
    ELSE IF value.ty = "DateTime<Utc>"
    THEN comparison_prefix \o DatetimeOpen \o format_ymd_hms(value.secs) \o DatetimeClose
    ELSE IF value.ty = "DateTime<Local>"
    THEN comparison_prefix \o DatetimeOpen \o format_ymd_hms(value.secs) \o DatetimeCloseUtc
    ELSE comparison_prefix \o value.text

\* format_value_inner, were the seconds rounded to the nearest instead of cut
format_value_inner_rounding(value, comparison_prefix) ==
    IF value.ty \in TextTypes
    THEN comparison_prefix \o <<Quote>> \o replace(value.text, <<Quote>>, <<Quote, Quote>>) \o <<Quote>>
    ELSE IF value.ty = "DateTime<Utc>"
    THEN comparison_prefix \o DatetimeOpen \o format_ymd_hms(value.secs + (IF value.nanos >= 500000000 THEN 1 ELSE 0)) \o DatetimeClose
    ELSE IF value.ty = "DateTime<Local>"
    THEN comparison_prefix \o DatetimeOpen \o format_ymd_hms(value.secs + value.offset) \o DatetimeCloseUtc
    ELSE comparison_prefix \o value.text

\* format_value_inner, were the local literal written without the utc modifier
format_value_inner_no_modifier(value, comparison_prefix) ==
    IF value.ty \in TextTypes
    THEN comparison_prefix \o <<Quote>> \o replace(value.text, <<Quote>>, <<Quote, Quote>>) \o <<Quote>>
    ELSE IF value.ty = "DateTime<Utc>"
    THEN comparison_prefix \o DatetimeOpen \o format_ymd_hms(value.secs) \o DatetimeClose
    ELSE IF value.ty = "DateTime<Local>"
    THEN comparison_prefix \o DatetimeOpen \o format_ymd_hms(value.secs + value.offset) \o DatetimeClose
    ELSE comparison_prefix \o value.text

\* format_value_inner, were every Display text escaped like a string
format_value_inner_escape_all(value, comparison_prefix) ==
    IF value.ty \in TextTypes
    THEN comparison_prefix \o <<Quote>> \o replace(value.text, <<Quote>>, <<Quote, Quote>>) \o <<Quote>>
    ELSE IF value.ty = "DateTime<Utc>"
    THEN comparison_prefix \o DatetimeOpen \o format_ymd_hms(value.secs) \o DatetimeClose
    ELSE IF value.ty = "DateTime<Local>"
    THEN comparison_prefix \o DatetimeOpen \o format_ymd_hms(value.secs + value.offset) \o DatetimeCloseUtc
    ELSE comparison_prefix \o replace(value.text, <<Quote>>, <<Quote, Quote>>)

\* fn format_value_inner<T>(value: &T, comparison_prefix: &str) -> String
format_value_inner(value, comparison_prefix) ==
    IF value.ty = "&str"
    THEN comparison_prefix \o <<Quote>> \o replace(value.text, <<Quote>>, <<Quote, Quote>>) \o <<Quote>>
    ELSE IF value.ty = "String"
    THEN comparison_prefix \o <<Quote>> \o replace(value.text, <<Quote>>, <<Quote, Quote>>) \o <<Quote>>
    ELSE IF value.ty = "DateTime<Utc>"
    THEN comparison_prefix \o DatetimeOpen \o format_ymd_hms(value.secs) \o DatetimeClose
    ELSE IF value.ty = "DateTime<Local>"
    THEN comparison_prefix \o DatetimeOpen \o format_ymd_hms(value.secs + value.offset) \o DatetimeCloseUtc
    ELSE comparison_prefix \o value.text

\* pub fn dbfmt_t<T>(input: &T) -> String
dbfmt_t(v) == format_value_inner(v, << >>)

\* dbfmt, were the type inspected before the None arm is taken
dbfmt_dispatch_first(v) ==
    IF v.ty \in TextTypes \cup TimeTypes THEN format_value_inner(v, << >>)
    ELSE IF ~v.present THEN NullText
    ELSE format_value_inner(v, << >>)

\* pub fn dbfmt<T>(input: Option<T>) -> String
dbfmt(v) ==
    IF ~v.present THEN NullText
    ELSE format_value_inner(v, << >>)

\* the Some arm, with the symbols of LtEq and GtEq exchanged
some_prefix_swapped(o) ==
    CASE o = "Eq"   -> <<" ", "=", " ">>
      [] o = "NEq"  -> <<" ", "<", ">", " ">>
      [] o = "Gt"   -> <<" ", ">", " ">>
      [] o = "GtEq" -> <<" ", "<", "=", " ">>
      [] o = "Lt"   -> <<" ", "<", " ">>
      [] o = "LtEq" -> <<" ", ">", "=", " ">>

\* the comparison_operator match of the Some arm
some_prefix(o) ==
    CASE o = "Eq"   -> <<" ", "=", " ">>
      [] o = "NEq"  -> <<" ", "<", ">", " ">>
      [] o = "Gt"   -> <<" ", ">", " ">>
      [] o = "GtEq" -> <<" ", ">", "=", " ">>
      [] o = "Lt"   -> <<" ", "<", " ">>
      [] o = "LtEq" -> <<" ", "<", "=", " ">>

\* the None arm, were only Eq mapped to IS
none_prefix_only_eq(o) ==
    IF o = "Eq" THEN <<" ", "I", "S", " ">>
    ELSE <<" ", "I", "S", " ", "N", "O", "T", " ">>

\* the comparison_operator match of the None arm
none_prefix(o) ==
    IF o = "NEq" THEN <<" ", "I", "S", " ", "N", "O", "T", " ">>
    ELSE <<" ", "I", "S", " ">>

\* pub fn dbfmt_comp<T>(input: Option<T>, comparison_operator: CompOp) -> String
dbfmt_comp(v, o) ==
    IF ~v.present THEN none_prefix(o) \o NullText
    ELSE format_value_inner(v, some_prefix(o))


\* ------------------------------------------------- the store and reading back
DigitVal(c) == CHOOSE n \in 0..9 : DigitChars[n + 1] = c

RECURSIVE Num(_)
Num(t) == IF Len(t) = 0 THEN 0 ELSE Num(SubSeq(t, 1, Len(t) - 1)) * 10 + DigitVal(t[Len(t)])

\* the wall clock (seconds since 1970-01-01 00:00:00) a 'Y-m-d H:M:S' text reads
parse_ymd_hms(t) ==
    days_from_civil(Num(SubSeq(t, 1, 4)), Num(SubSeq(t, 6, 7)), Num(SubSeq(t, 9, 10))) * 86400
    + Num(SubSeq(t, 12, 13)) * 3600 + Num(SubSeq(t, 15, 16)) * 60 + Num(SubSeq(t, 18, 19))

\* the value of a SQL string literal, given what follows its opening quote:
\* '' stands for one quote, a single ' ends the literal
RECURSIVE sql_unquote(_)
sql_unquote(t) ==
    IF Len(t) = 0 THEN << >>
    ELSE IF Head(t) # Quote THEN <<Head(t)>> \o sql_unquote(Tail(t))
    ELSE IF Len(t) >= 2 /\ t[2] = Quote THEN <<Quote>> \o sql_unquote(Drop(t, 2))
    ELSE << >>

\* what the store makes of a literal: datetime('T') is T, datetime('T', 'utc')
\* takes T for local wall-clock time and gives the UTC wall clock, a string
\* literal is its unquoted text
sqlite_eval(lit, off) ==
    IF StartsWith(lit, DatetimeOpen)
    THEN LET body == SubSeq(lit, Len(DatetimeOpen) + 1, Len(DatetimeOpen) + 19)
             rest == Drop(lit, Len(DatetimeOpen) + 19)
         IN  IF rest = DatetimeCloseUtc
             THEN format_ymd_hms(parse_ymd_hms(body) - off)
             ELSE format_ymd_hms(parse_ymd_hms(body))
    ELSE sql_unquote(Tail(lit))

\* a column read into DateTime<Utc> and into DateTime<Local>: the text is taken
\* for UTC wall-clock time; the local reading adds the local offset
read_back(t, off) ==
    [done |-> TRUE, utc_secs |-> parse_ymd_hms(t), local_secs |-> parse_ymd_hms(t),
     local_wall |-> parse_ymd_hms(t) + off]

NotRead == [done |-> FALSE, utc_secs |-> 0, local_secs |-> 0, local_wall |-> 0]


\* ------------------------------------------------------------ decoder input
\* rusqlite::Error variants the calls can meet
OpenError == "CannotOpen"

PrepareError == "SqlError"

NoRows == "QueryReturnedNoRows"

\* errors a target type's TryFrom<&Row> may return (its Error is rusqlite::Error)
ConvErrors == {"InvalidColumnType", NoRows}

\* column 0 of a row, by stored kind (ValueRef); a real is held in tenths
Cell(kind, i, t, b) == [kind |-> kind, int |-> i, text |-> t, bytes |-> b]

Cells ==
    { Cell("Null", 0, << >>, << >>),
      Cell("Integer", 3, << >>, << >>),
      Cell("Integer", 0 - 7, << >>, << >>),
      Cell("Real", 25, << >>, << >>),
      Cell("Real", 0 - 19, << >>, << >>),
      Cell("Real", 30, << >>, << >>),
      Cell("Text", 0, <<"1", "0">>, << >>),
      Cell("Text", 0, <<"-", "4">>, << >>),
      Cell("Text", 0, <<"1", "x">>, << >>),
      Cell("Text", 0, << >>, << >>),
      Cell("Blob", 0, << >>, <<255, 0, 231, 103>>) }

\* a result row: column 0 and what T::try_from makes of the row
ResultRows == [cell : Cells, conv : {"Ok"} \cup ConvErrors]

RECURSIVE RowSeqs(_)
RowSeqs(n) ==
    IF n = 0 THEN {<< >>}
    ELSE LET shorter == RowSeqs(n - 1)
         IN  shorter \cup {Append(t, r) : t \in {u \in shorter : Len(u) = n - 1}, r \in ResultRows}

\* the data source: whether the file opens, whether the statement prepares,
\* and the rows the statement yields
DataSources == [can_open : BOOLEAN, sql_ok : BOOLEAN, rows : RowSeqs(MaxRows)]

\* ------------------------------------------------------------------ results
Nil == [kind |-> "Nil"]

Ok(v) == [tag |-> "Ok", val |-> v, err |-> ""]

Err(e) == [tag |-> "Err", val |-> Nil, err |-> e]

Some(v) == [some |-> TRUE, v |-> v]

None == [some |-> FALSE, v |-> Nil]

\* ------------------------------------------------------ scalar conversions
\* Display of an integer
RECURSIVE nat_to_text(_)
nat_to_text(n) == IF n < 10 THEN <<Digit(n)>> ELSE nat_to_text(n \div 10) \o <<Digit(n % 10)>>

int_to_text(i) == IF i < 0 THEN <<"-">> \o nat_to_text(0 - i) ELSE nat_to_text(i)

\* Display of an f64 held in tenths: no fraction is printed for a whole number
real_to_text(r) ==
    LET a == IF r < 0 THEN 0 - r ELSE r
        sign == IF r < 0 THEN <<"-">> ELSE << >>
    IN  IF a % 10 = 0 THEN sign \o nat_to_text(a \div 10)
        ELSE sign \o nat_to_text(a \div 10) \o <<".", Digit(a % 10)>>

\* f as i64, were the conversion a floor (rounding toward minus infinity)
real_as_i64_floor(r) == r \div 10

\* f as i64 for an f64 held in tenths: truncation toward zero
real_as_i64(r) == IF r < 0 THEN 0 - ((0 - r) \div 10) ELSE r \div 10

IsDigits(t) == Len(t) > 0 /\ \A k \in 1..Len(t) : t[k] \in {DigitChars[j] : j \in 1..10}

\* str::parse::<i64>: an optional sign, then one or more decimal digits
parse_i64(t) ==
    IF IsDigits(t) THEN Ok(Num(t))
    ELSE IF Len(t) > 1 /\ t[1] = "-" /\ IsDigits(Tail(t)) THEN Ok(0 - Num(Tail(t)))
    ELSE IF Len(t) > 1 /\ t[1] = "+" /\ IsDigits(Tail(t)) THEN Ok(Num(Tail(t)))
    ELSE Err("FromSqlConversionFailure")

HexChars == <<"0", "1", "2", "3", "4", "5", "6", "7", "8", "9", "a", "b", "c", "d", "e", "f">>

\* hex::encode, were the two digits of a byte written low nibble first
RECURSIVE hex_encode_low_first(_)
hex_encode_low_first(b) ==
    IF Len(b) = 0 THEN << >>
    ELSE <<HexChars[(Head(b) % 16) + 1], HexChars[(Head(b) \div 16) + 1]>> \o hex_encode_low_first(Tail(b))

\* hex::encode
RECURSIVE hex_encode(_)
hex_encode(b) ==
    IF Len(b) = 0 THEN << >>
    ELSE <<HexChars[(Head(b) \div 16) + 1], HexChars[(Head(b) % 16) + 1]>> \o hex_encode(Tail(b))

\* ------------------------------------------------------- rusqlite plumbing
\* Connection::query_row(sql, [], f): f applied to the first row, the no-rows
\* error when there is none
query_row(source, f) ==
    IF ~source.sql_ok THEN Err(PrepareError)
    ELSE IF Len(source.rows) = 0 THEN Err(NoRows)
    ELSE f[source.rows[1]]

\* OptionalExtension::optional
optional(r) ==
    IF r.tag = "Ok" THEN Ok(Some(r.val))
    ELSE IF r.err = NoRows THEN Ok(None)
    ELSE r

\* T::try_from(row)
try_from(row) ==
    IF row.conv = "Ok" THEN Ok(row.cell) ELSE Err(row.conv)

\* collect, were failing rows skipped and the conversions that succeeded kept
\* (a filter_map(Result::ok) in place of the collect into a Result)
RECURSIVE collect_skipping_failures(_)
collect_skipping_failures(rows) ==
    IF Len(rows) = 0 THEN Ok(<< >>)
    ELSE LET first == try_from(Head(rows))
             rest  == collect_skipping_failures(Tail(rows))
         IN  IF first.tag = "Err" THEN rest
             ELSE Ok(<<first.val>> \o rest.val)

\* collect, were each converted row put in front of the ones before it
RECURSIVE collect_reversed(_)
collect_reversed(rows) ==
    IF Len(rows) = 0 THEN Ok(<< >>)
    ELSE LET first == try_from(Head(rows))
         IN  IF first.tag = "Err" THEN first
             ELSE LET rest == collect_reversed(Tail(rows))
                  IN  IF rest.tag = "Err" THEN rest
                      ELSE Ok(rest.val \o <<first.val>>)

\* Iterator::collect::<Result<Vec<T>, Error>>() over the mapped rows
RECURSIVE collect(_)
collect(rows) ==
    IF Len(rows) = 0 THEN Ok(<< >>)
    ELSE LET first == try_from(Head(rows))
         IN  IF first.tag = "Err" THEN first
             ELSE LET rest == collect(Tail(rows))
                  IN  IF rest.tag = "Err" THEN rest
                      ELSE Ok(<<first.val>> \o rest.val)


\* ------------------------------------------------- decoder entry points
\* the row closure of query_to_i64
i64_closure ==
    [row \in ResultRows |->
        CASE row.cell.kind = "Integer" -> Ok(row.cell.int)
          [] row.cell.kind = "Real"    -> Ok(real_as_i64(row.cell.int))
          [] row.cell.kind = "Text"    -> parse_i64(row.cell.text)
          [] row.cell.kind = "Null"    -> Err("InvalidColumnType")
          [] row.cell.kind = "Blob"    -> Err("InvalidColumnType")]

\* pub fn query_to_i64(dbfilepath, sql) -> Result<Option<i64>, Box<dyn StdError>>
query_to_i64(source) ==
    IF ~source.can_open THEN Err(OpenError)
    ELSE optional(query_row(source, i64_closure))

\* the row closure of query_to_string
string_closure ==
    [row \in ResultRows |->
        CASE row.cell.kind = "Null"    -> Ok(None)
          [] row.cell.kind = "Integer" -> Ok(Some(int_to_text(row.cell.int)))
          [] row.cell.kind = "Real"    -> Ok(Some(real_to_text(row.cell.int)))
          [] row.cell.kind = "Blob"    -> Ok(Some(hex_encode(row.cell.bytes)))
          [] row.cell.kind = "Text"    -> Ok(Some(row.cell.text))]

\* query_to_string, were the no-rows error made optional as in query_to_i64
query_to_string_optional(source) ==
    IF ~source.can_open THEN Err(OpenError)
    ELSE LET r == optional(query_row(source, string_closure))
         IN  IF r.tag = "Ok" /\ r.val.some THEN r.val.v
             ELSE IF r.tag = "Ok" THEN Ok(None)
             ELSE r

\* pub fn query_to_string(dbfilepath, sql) -> Result<Option<String>, Box<dyn StdError>>
query_to_string(source) ==
    IF ~source.can_open THEN Err(OpenError)
    ELSE query_row(source, string_closure)

\* query_single_row_to_tuple, were all the rows collected and the first one taken
query_single_row_to_tuple_collecting(source) ==
    IF ~source.can_open THEN Err(OpenError)
    ELSE IF ~source.sql_ok THEN Err(PrepareError)
    ELSE LET all == collect(source.rows)
         IN  IF all.tag = "Err" /\ all.err = NoRows THEN Ok(None)
             ELSE IF all.tag = "Err" THEN all
             ELSE IF Len(all.val) = 0 THEN Ok(None)
             ELSE Ok(Some(all.val[1]))

\* pub fn query_single_row_to_tuple<T>(dbfilepath, sql) -> Result<Option<T>, rusqlite::Error>
query_single_row_to_tuple(source) ==
    IF ~source.can_open THEN Err(OpenError)
    ELSE IF ~source.sql_ok THEN Err(PrepareError)
    ELSE LET result == IF Len(source.rows) > 0 THEN try_from(source.rows[1])
                       ELSE Err(NoRows)
         IN  IF result.tag = "Ok" THEN Ok(Some(result.val))
             ELSE IF result.err = NoRows THEN Ok(None)
             ELSE Err(result.err)

\* the rows the query_map closure of query_single_row_to_tuple runs on: the
\* mapped rows are lazy and next() is called once
single_row_conversions(source) ==
    IF source.can_open /\ source.sql_ok /\ Len(source.rows) > 0 THEN <<1>> ELSE << >>

\* the rows the query_map closure of query_to_tuples runs on: collect stops
\* after the first row whose conversion fails
tuples_conversions(source) ==
    IF ~(source.can_open /\ source.sql_ok) THEN << >>
    ELSE LET failing == {k \in 1..Len(source.rows) : source.rows[k].conv # "Ok"}
             last == IF failing = {} THEN Len(source.rows)
                     ELSE CHOOSE k \in failing : \A j \in failing : k <= j
         IN  [i \in 1..last |-> i]

\* pub fn query_to_tuples<T>(dbfilepath, sql) -> Result<Vec<T>, rusqlite::Error>
query_to_tuples(source) ==
    IF ~source.can_open THEN Err(OpenError)
    ELSE IF ~source.sql_ok THEN Err(PrepareError)
    ELSE collect(source.rows)

\* -------------------------------------------------- formatter state machine
NoResult == [tag |-> "None", val |-> Nil, err |-> ""]

FmtIdle ==
    /\ call = "none"
    /\ out = << >>
    /\ written = FALSE
    /\ stored = << >>
    /\ readback = NotRead

DecIdle ==
    /\ d_call = "none"
    /\ d_result = NoResult
    /\ d_converted = << >>

ConnIdle ==
    /\ conns = {}
    /\ opened = 0
    /\ c_pc = "idle"
    /\ c_used = << >>

NotExpanded == [tag |-> "None", text |-> << >>]

WhereIdle ==
    /\ w_template = << >>
    /\ w_pairs = << >>
    /\ w_result = NotExpanded

NotReturned == [tag |-> "None", text |-> << >>]

PathIdle ==
    /\ p_path = << >>
    /\ p_base = << >>
    /\ p_result = NotReturned

NoTermios == {"none"}

WatchIdle ==
    /\ os = "linux"
    /\ keep_going = TRUE
    /\ tty = {"ICANON", "ECHO"}
    /\ termios = NoTermios
    /\ chan = << >>
    /\ tx_alive = FALSE
    /\ rx_alive = FALSE
    /\ key_seq = << >>
    /\ main_pc = "not_called"
    /\ reader_pc = "not_spawned"
    /\ buffer = 0
    /\ n_input = 0
    /\ ended_by = "none"
    /\ discarded = << >>

OtherIdle ==
    /\ ConnIdle
    /\ WhereIdle
    /\ PathIdle
    /\ WatchIdle

FmtInit ==
    /\ tz_offset \in LocalOffsets
    /\ input \in Inputs(tz_offset)
    /\ op \in CompOp
    /\ FmtIdle
    /\ db = [can_open |-> TRUE, sql_ok |-> TRUE, rows |-> << >>]
    /\ DecIdle
    /\ OtherIdle

Call_dbfmt_t ==
    /\ call = "none"
    /\ input.present
    /\ out' = dbfmt_t(input)
    /\ call' = "dbfmt_t"
    /\ UNCHANGED <<input, op, tz_offset, written, stored, readback, dec_vars, other_vars>>

Call_dbfmt ==
    /\ call = "none"
    /\ out' = dbfmt(input)
    /\ call' = "dbfmt"
    /\ UNCHANGED <<input, op, tz_offset, written, stored, readback, dec_vars, other_vars>>

Call_dbfmt_comp ==
    /\ call = "none"
    /\ out' = dbfmt_comp(input, op)
    /\ call' = "dbfmt_comp"
    /\ UNCHANGED <<input, op, tz_offset, written, stored, readback, dec_vars, other_vars>>

\* the literal is evaluated by the store (INSERT ... VALUES (<literal>))
StoreWrite ==
    /\ call \in {"dbfmt_t", "dbfmt"}
    /\ input.present
    /\ input.ty \in TextTypes \cup TimeTypes
    /\ ~written
    /\ stored' = sqlite_eval(out, tz_offset)
    /\ written' = TRUE
    /\ UNCHANGED <<input, op, tz_offset, call, out, readback, dec_vars, other_vars>>

\* the stored timestamp column is read back
ReadBack ==
    /\ written
    /\ input.ty \in TimeTypes
    /\ ~readback.done
    /\ readback' = read_back(stored, tz_offset)
    /\ UNCHANGED <<input, op, tz_offset, call, out, written, stored, dec_vars, other_vars>>

FmtNext ==
    \/ Call_dbfmt_t
    \/ Call_dbfmt
    \/ Call_dbfmt_comp
    \/ StoreWrite
    \/ ReadBack

Spec == FmtInit /\ [][FmtNext]_vars

\* ---------------------------------------------------- decoder state machine
DecInit ==
    /\ db \in DataSources
    /\ DecIdle
    /\ tz_offset = 0
    /\ input = NoneOf("Display")
    /\ op = "Eq"
    /\ FmtIdle
    /\ OtherIdle

Call_query_to_i64 ==
    /\ d_call = "none"
    /\ d_result' = query_to_i64(db)
    /\ d_call' = "query_to_i64"
    /\ d_converted' = << >>
    /\ UNCHANGED <<db, fmt_vars, other_vars>>

Call_query_to_string ==
    /\ d_call = "none"
    /\ d_result' = query_to_string(db)
    /\ d_call' = "query_to_string"
    /\ d_converted' = << >>
    /\ UNCHANGED <<db, fmt_vars, other_vars>>

Call_query_single_row_to_tuple ==
    /\ d_call = "none"
    /\ d_result' = query_single_row_to_tuple(db)
    /\ d_call' = "query_single_row_to_tuple"
    /\ d_converted' = single_row_conversions(db)
    /\ UNCHANGED <<db, fmt_vars, other_vars>>

Call_query_to_tuples ==
    /\ d_call = "none"
    /\ d_result' = query_to_tuples(db)
    /\ d_call' = "query_to_tuples"
    /\ d_converted' = tuples_conversions(db)
    /\ UNCHANGED <<db, fmt_vars, other_vars>>

DecNext ==
    \/ Call_query_to_i64
    \/ Call_query_to_string
    \/ Call_query_single_row_to_tuple
    \/ Call_query_to_tuples

SpecDecoder == DecInit /\ [][DecNext]_vars


\* ------------------------------------------- connections of decoder calls
\* a decoder call in two steps: Connection::open, then the rest of the body up
\* to the return, where the locals (rows, stmt, conn) go out of scope
EntryPoints == {"query_to_i64", "query_to_string", "query_single_row_to_tuple", "query_to_tuples"}

run_entry(e, source) ==
    CASE e = "query_to_i64"              -> query_to_i64(source)
      [] e = "query_to_string"           -> query_to_string(source)
      [] e = "query_single_row_to_tuple" -> query_single_row_to_tuple(source)
      [] e = "query_to_tuples"           -> query_to_tuples(source)

\* the open connections after conn goes out of scope, were it closed only on
\* the path that returns Ok (an explicit close the ? operator jumps over)
drop_conn_on_ok_only(open, id, result) ==
    IF result.tag = "Err" THEN open ELSE open \ {id}

\* the open connections after conn goes out of scope: Connection's Drop closes
\* it on every path that leaves the function, early returns by ? included
drop_conn(open, id, result) == open \ {id}

\* rows for the connection model: one integer and one NULL cell
ConnRows == {r \in ResultRows : r.cell.kind = "Null" \/ (r.cell.kind = "Integer" /\ r.cell.int = 3)}

RECURSIVE ConnRowSeqs(_)
ConnRowSeqs(n) ==
    IF n = 0 THEN {<< >>}
    ELSE LET shorter == ConnRowSeqs(n - 1)
         IN  shorter \cup {Append(t, r) : t \in {u \in shorter : Len(u) = n - 1}, r \in ConnRows}

ConnInit ==
    /\ db \in [can_open : BOOLEAN, sql_ok : BOOLEAN, rows : ConnRowSeqs(MaxRows)]
    /\ DecIdle
    /\ ConnIdle
    /\ WhereIdle
    /\ PathIdle
    /\ WatchIdle
    /\ tz_offset = 0
    /\ input = NoneOf("Display")
    /\ op = "Eq"
    /\ FmtIdle

\* let conn = Connection::open(&dbfilepath)?;
Begin(e) ==
    /\ c_pc \in {"idle", "returned"}
    /\ Len(c_used) < MaxCalls
    /\ d_call' = e
    /\ d_converted' = << >>
    /\ IF db.can_open
       THEN /\ opened' = opened + 1
            /\ conns' = conns \cup {opened + 1}
            /\ c_used' = Append(c_used, opened + 1)
            /\ c_pc' = "open"
            /\ d_result' = NoResult
       ELSE /\ d_result' = Err(OpenError)
            /\ c_used' = Append(c_used, 0)
            /\ c_pc' = "returned"
            /\ UNCHANGED <<opened, conns>>
    /\ UNCHANGED <<db, fmt_vars, where_vars, path_vars, watch_vars>>

\* the statement is prepared and run, the result built, and the function left
Finish(e) ==
    /\ c_pc = "open"
    /\ d_call = e
    /\ d_result' = run_entry(e, db)
    /\ d_converted' = (CASE e = "query_single_row_to_tuple" -> single_row_conversions(db)
                         [] e = "query_to_tuples" -> tuples_conversions(db)
                         [] OTHER -> << >>)
    /\ conns' = drop_conn(conns, c_used[Len(c_used)], run_entry(e, db))
    /\ c_pc' = "returned"
    /\ UNCHANGED <<db, d_call, opened, c_used, fmt_vars, where_vars, path_vars, watch_vars>>

ConnNext == \E e \in EntryPoints : Begin(e) \/ Finish(e)

SpecConn == ConnInit /\ [][ConnNext]_vars

\* ------------------------------------------------------------- where_sql!
\* characters of a template: the two braces and an ordinary character
TemplateChars == {"{", "}", "w"}

Templates == SeqsUpTo(TemplateChars, MaxTemplate)

\* (field, value) pairs: values as dbfmt_comp gives them, and texts with braces
WherePairs ==
    { [field |-> <<"c">>, value |-> dbfmt_comp(TextValue("Display", <<"3">>), "Eq")],
      [field |-> <<"d">>, value |-> dbfmt_comp(NoneOf("String"), "NEq")],
      [field |-> <<"{">>, value |-> <<"}", "w">>] }

RECURSIVE PairSeqs(_)
PairSeqs(n) ==
    IF n = 0 THEN {<< >>}
    ELSE LET shorter == PairSeqs(n - 1)
         IN  shorter \cup {Append(t, r) : t \in {u \in shorter : Len(u) = n - 1}, r \in WherePairs}

Expanded(t) == [tag |-> "Ok", text |-> t]

CompileError == [tag |-> "CompileError", text |-> << >>]

\* format!(template, args...): {} takes the next argument, {{ and }} stand for
\* one brace, any other brace makes the format string invalid (a name between
\* braces would need a variable of that name in scope: there is none); every
\* argument must be used. The scan gives the text and the arguments used.
RECURSIVE format_scan(_, _, _)
format_scan(t, args, used) ==
    IF Len(t) = 0 THEN [ok |-> TRUE, text |-> << >>, used |-> used]
    ELSE IF Head(t) = "{"
    THEN IF Len(t) >= 2 /\ t[2] = "{"
         THEN LET rest == format_scan(Drop(t, 2), args, used)
              IN  [rest EXCEPT !.text = <<"{">> \o @]
         ELSE IF Len(t) >= 2 /\ t[2] = "}"
         THEN IF used >= Len(args) THEN [ok |-> FALSE, text |-> << >>, used |-> used]
              ELSE LET rest == format_scan(Drop(t, 2), args, used + 1)
                   IN  [rest EXCEPT !.text = args[used + 1] \o @]
         ELSE [ok |-> FALSE, text |-> << >>, used |-> used]
    ELSE IF Head(t) = "}"
    THEN IF Len(t) >= 2 /\ t[2] = "}"
         THEN LET rest == format_scan(Drop(t, 2), args, used)
              IN  [rest EXCEPT !.text = <<"}">> \o @]
         ELSE [ok |-> FALSE, text |-> << >>, used |-> used]
    ELSE LET rest == format_scan(Tail(t), args, used)
         IN  [rest EXCEPT !.text = <<Head(t)>> \o @]

format(t, args) ==
    LET r == format_scan(t, args, 0)
    IN  IF r.ok /\ r.used = Len(args) THEN Expanded(r.text) ELSE CompileError

\* where_sql!, were " = " written between the field and the value
where_sql_with_equals(template, pairs) ==
    format(template, [i \in 1..Len(pairs) |-> pairs[i].field \o <<" ", "=", " ">> \o pairs[i].value])

\* macro_rules! where_sql: one format!("{}{}", field, value) an argument
where_sql(template, pairs) ==
    format(template, [i \in 1..Len(pairs) |-> pairs[i].field \o pairs[i].value])

WhereInit ==
    /\ w_template \in Templates
    /\ w_pairs \in PairSeqs(MaxPairs)
    /\ w_result = NotExpanded
    /\ DecIdle
    /\ db = [can_open |-> TRUE, sql_ok |-> TRUE, rows |-> << >>]
    /\ ConnIdle
    /\ PathIdle
    /\ WatchIdle
    /\ tz_offset = 0
    /\ input = NoneOf("Display")
    /\ op = "Eq"
    /\ FmtIdle

Call_where_sql ==
    /\ w_result = NotExpanded
    /\ w_result' = where_sql(w_template, w_pairs)
    /\ UNCHANGED <<w_template, w_pairs, fmt_vars, dec_vars, conn_vars, path_vars, watch_vars>>

WhereNext == Call_where_sql

SpecWhere == WhereInit /\ [][WhereNext]_vars

\* ------------------------------------------------- path_to_agnostic_relative
\* characters of a path text: the separator, the dot and a name character
PathChars == {"/", ".", "a"}

\* the segments of a path text between its separators, empty ones included
RECURSIVE Segments(_, _)
Segments(t, seg) ==
    IF Len(t) = 0 THEN <<seg>>
    ELSE IF Head(t) = "/" THEN <<seg>> \o Segments(Tail(t), << >>)
    ELSE Segments(Tail(t), Append(seg, Head(t)))

RootDir == [kind |-> "RootDir", name |-> << >>]

CurDir == [kind |-> "CurDir", name |-> << >>]

ParentDir == [kind |-> "ParentDir", name |-> << >>]

Normal(c) == [kind |-> "Normal", name |-> c]

\* Path::components on a Unix path: a leading separator is the root, empty
\* segments and inner "." are dropped, a leading "." of a relative path is kept,
\* ".." is kept wherever it stands, any other segment is a normal component
RECURSIVE segment_components(_, _, _)
segment_components(segs, k, rooted) ==
    IF k > Len(segs) THEN << >>
    ELSE LET seg == segs[k]
             rest == segment_components(segs, k + 1, rooted)
         IN  IF seg = << >> THEN rest
             ELSE IF seg = <<".">> THEN (IF k = 1 /\ ~rooted THEN <<CurDir>> \o rest ELSE rest)
             ELSE IF seg = <<".", ".">> THEN <<ParentDir>> \o rest
             ELSE <<Normal(seg)>> \o rest

components(t) ==
    LET rooted == Len(t) > 0 /\ Head(t) = "/"
    IN  (IF rooted THEN <<RootDir>> ELSE << >>) \o segment_components(Segments(t, << >>), 1, rooted)

\* the loop of path_to_agnostic_relative, were the separator decided by the
\* component's index rather than by what has been written
RECURSIVE relative_loop_sep_by_index(_, _, _, _)
relative_loop_sep_by_index(path_components, icomp, nbase, rtn) ==
    IF icomp > Len(path_components) THEN rtn
    ELSE LET path_component == path_components[icomp]
             sep == IF icomp - 1 > nbase THEN <<"/">> ELSE << >>
         IN  IF icomp - 1 >= nbase /\ path_component.kind = "Normal"
             THEN relative_loop_sep_by_index(path_components, icomp + 1, nbase, rtn \o sep \o path_component.name)
             ELSE relative_loop_sep_by_index(path_components, icomp + 1, nbase, rtn)

path_to_agnostic_relative_sep_by_index(path, base) ==
    relative_loop_sep_by_index(components(path), 1, Len(components(base)), << >>)

\* for (icomp, path_component) in path_components.enumerate(): icomp here counts
\* from 1, the code's from 0
RECURSIVE relative_loop(_, _, _, _)
relative_loop(path_components, icomp, nbase, rtn) ==
    IF icomp > Len(path_components) THEN rtn
    ELSE LET path_component == path_components[icomp]
             sep == IF rtn # << >> THEN <<"/">> ELSE << >>
         IN  IF icomp - 1 >= nbase /\ path_component.kind = "Normal"
             THEN relative_loop(path_components, icomp + 1, nbase, rtn \o sep \o path_component.name)
             ELSE relative_loop(path_components, icomp + 1, nbase, rtn)

path_to_agnostic_relative(path, base) ==
    relative_loop(components(path), 1, Len(components(base)), << >>)

Returned(t) == [tag |-> "Ok", text |-> t]

PathInit ==
    /\ p_path \in SeqsUpTo(PathChars, MaxPath)
    /\ p_base \in SeqsUpTo(PathChars, MaxBase)
    /\ p_result = NotReturned
    /\ DecIdle
    /\ db = [can_open |-> TRUE, sql_ok |-> TRUE, rows |-> << >>]
    /\ ConnIdle
    /\ WhereIdle
    /\ WatchIdle
    /\ tz_offset = 0
    /\ input = NoneOf("Display")
    /\ op = "Eq"
    /\ FmtIdle

Call_path_to_agnostic_relative ==
    /\ p_result = NotReturned
    /\ p_result' = Returned(path_to_agnostic_relative(p_path, p_base))
    /\ UNCHANGED <<p_path, p_base, fmt_vars, dec_vars, conn_vars, where_vars, watch_vars>>

PathNext == Call_path_to_agnostic_relative

SpecPath == PathInit /\ [][PathNext]_vars

\* ------------------------------------------------------------ watch_for_quit
TargetOs == {"linux", "windows", "other"}

\* local-mode flags a terminal may have on entry
LocalFlags == {"ICANON", "ECHO", "ISIG"}

KeyLowerQ == 113

KeyUpperQ == 81

\* bytes a key press may deliver: the two quit keys and another key ('a')
KeyBytes == {KeyLowerQ, KeyUpperQ, 97}

\* events crossterm's event::read may give
Events == {"KeyQ", "KeyOther", "NotKey", "Err"}

\* new_termios.c_lflag &= !(ICANON | ECHO)
new_termios(saved) == saved \ {"ICANON", "ECHO"}

\* the quit test, were a quit key anywhere in the batch to count
quit_pressed_anywhere(seq) ==
    \E k \in 1..Len(seq) : seq[k] \in {KeyLowerQ, KeyUpperQ}

\* key_seq[0] == 113 || key_seq[0] == 81
quit_pressed(seq) == seq[1] \in {KeyLowerQ, KeyUpperQ}

\* where control goes after the loop's break, were the disconnected arm to
\* leave without the restoring tcsetattr
after_break_disconnect_skips(reason) ==
    IF reason = "disconnected" THEN "store" ELSE "restore"

\* where control goes after the loop's break: both arms fall to the tcsetattr
\* after the loop
after_break(reason) == "restore"

others_idle == <<fmt_vars, dec_vars, conn_vars, where_vars, path_vars>>

WatchInit ==
    /\ os \in TargetOs
    /\ keep_going \in BOOLEAN
    /\ tty \in SUBSET LocalFlags
    /\ termios = NoTermios
    /\ chan = << >>
    /\ tx_alive = FALSE
    /\ rx_alive = FALSE
    /\ key_seq = << >>
    /\ main_pc = (IF os = "linux" THEN "from_fd"
                  ELSE IF os = "windows" THEN "read_event" ELSE "unsupported")
    /\ reader_pc = "not_spawned"
    /\ buffer = 0
    /\ n_input = 0
    /\ ended_by = "none"
    /\ discarded = << >>
    /\ DecIdle
    /\ db = [can_open |-> TRUE, sql_ok |-> TRUE, rows |-> << >>]
    /\ ConnIdle
    /\ WhereIdle
    /\ PathIdle
    /\ tz_offset = 0
    /\ input = NoneOf("Display")
    /\ op = "Eq"
    /\ FmtIdle

\* windows: one event::read(); 'q' or an error leaves the loop
ReadEvent ==
    /\ main_pc = "read_event"
    /\ n_input < MaxInput
    /\ \E ev \in Events :
          /\ main_pc' = (IF ev \in {"KeyQ", "Err"} THEN "store" ELSE "read_event")
          /\ ended_by' = (IF ev = "KeyQ" THEN "quit" ELSE IF ev = "Err" THEN "error" ELSE ended_by)
    /\ n_input' = n_input + 1
    /\ UNCHANGED <<os, discarded, keep_going, tty, termios, chan, tx_alive, rx_alive, key_seq,
                   reader_pc, buffer, others_idle>>

\* any other target: the flag is cleared and the function panics
Unsupported ==
    /\ main_pc = "unsupported"
    /\ keep_going' = FALSE
    /\ main_pc' = "panicked"
    /\ UNCHANGED <<os, discarded, tty, termios, chan, tx_alive, rx_alive, key_seq,
                   reader_pc, buffer, n_input, ended_by, others_idle>>

\* linux: Termios::from_fd(stdin).unwrap()
FromFd ==
    /\ main_pc = "from_fd"
    /\ \E ok \in BOOLEAN :
          IF ok THEN termios' = tty /\ main_pc' = "set_raw"
          ELSE termios' = termios /\ main_pc' = "panicked"
    /\ UNCHANGED <<os, discarded, keep_going, tty, chan, tx_alive, rx_alive, key_seq,
                   reader_pc, buffer, n_input, ended_by, others_idle>>

\* tcsetattr(stdin, TCSANOW, &mut new_termios).unwrap()
SetRaw ==
    /\ main_pc = "set_raw"
    /\ \E ok \in BOOLEAN :
          IF ok THEN tty' = new_termios(termios) /\ main_pc' = "spawn"
          ELSE tty' = tty /\ main_pc' = "panicked"
    /\ UNCHANGED <<os, discarded, keep_going, termios, chan, tx_alive, rx_alive, key_seq,
                   reader_pc, buffer, n_input, ended_by, others_idle>>

\* mpsc::channel and thread::spawn of the reader
Spawn ==
    /\ main_pc = "spawn"
    /\ tx_alive' = TRUE
    /\ rx_alive' = TRUE
    /\ reader_pc' = "flush"
    /\ main_pc' = "poll"
    /\ UNCHANGED <<os, discarded, keep_going, tty, termios, chan, key_seq,
                   buffer, n_input, ended_by, others_idle>>

\* one turn of the polling loop: rx.try_recv() and its three arms
Poll ==
    /\ main_pc = "poll"
    /\ IF chan # << >>
       THEN /\ key_seq' = Append(key_seq, Head(chan))
            /\ chan' = Tail(chan)
            /\ UNCHANGED <<main_pc, ended_by, discarded>>
       ELSE IF tx_alive
       THEN /\ chan' = chan
            /\ IF key_seq # << >> /\ quit_pressed(key_seq)
               THEN /\ main_pc' = after_break("quit")
                    /\ ended_by' = "quit"
                    /\ UNCHANGED <<key_seq, discarded>>
               ELSE /\ key_seq' = << >>
                    /\ discarded' = (IF key_seq # << >> THEN key_seq ELSE discarded)
                    /\ UNCHANGED <<main_pc, ended_by>>
       ELSE /\ main_pc' = after_break("disconnected")
            /\ ended_by' = "disconnected"
            /\ UNCHANGED <<chan, key_seq, discarded>>
    /\ UNCHANGED <<os, keep_going, tty, termios, tx_alive, rx_alive,
                   reader_pc, buffer, n_input, others_idle>>

\* tcsetattr(stdin, TCSANOW, &termios).unwrap(), then the block ends and the
\* receiver is dropped
Restore ==
    /\ main_pc = "restore"
    /\ \E ok \in BOOLEAN :
          IF ok THEN tty' = termios /\ main_pc' = "store"
          ELSE tty' = tty /\ main_pc' = "panicked"
    /\ rx_alive' = FALSE
    /\ UNCHANGED <<os, discarded, keep_going, termios, chan, tx_alive, key_seq,
                   reader_pc, buffer, n_input, ended_by, others_idle>>

\* keep_going.store(false, Ordering::Relaxed) and the return
Store ==
    /\ main_pc = "store"
    /\ keep_going' = FALSE
    /\ main_pc' = "returned"
    /\ UNCHANGED <<os, discarded, tty, termios, chan, tx_alive, rx_alive, key_seq,
                   reader_pc, buffer, n_input, ended_by, others_idle>>

\* the reader's stdout.lock().flush().unwrap(): a failure unwinds the thread
\* and drops the sender
ReaderFlush ==
    /\ reader_pc = "flush"
    /\ \E ok \in BOOLEAN :
          IF ok THEN reader_pc' = "read" /\ tx_alive' = tx_alive
          ELSE reader_pc' = "panicked" /\ tx_alive' = FALSE
    /\ UNCHANGED <<os, discarded, keep_going, tty, termios, chan, rx_alive, key_seq,
                   main_pc, buffer, n_input, ended_by, others_idle>>

\* reader.read(&mut buffer): a byte fills the buffer; end of input or an error
\* leaves the buffer as it was
ReaderRead ==
    /\ reader_pc = "read"
    /\ n_input < MaxInput
    /\ \/ \E b \in KeyBytes : buffer' = b
       \/ buffer' = buffer
    /\ n_input' = n_input + 1
    /\ reader_pc' = "send"
    /\ UNCHANGED <<os, discarded, keep_going, tty, termios, chan, tx_alive, rx_alive, key_seq,
                   main_pc, ended_by, others_idle>>

\* tx.send(buffer[0]): an error (the receiver is gone) ends the thread
ReaderSend ==
    /\ reader_pc = "send"
    /\ IF rx_alive
       THEN chan' = Append(chan, buffer) /\ reader_pc' = "read" /\ tx_alive' = tx_alive
       ELSE chan' = chan /\ reader_pc' = "returned" /\ tx_alive' = FALSE
    /\ UNCHANGED <<os, discarded, keep_going, tty, termios, rx_alive, key_seq,
                   main_pc, buffer, n_input, ended_by, others_idle>>

WatchNext ==
    \/ ReadEvent
    \/ Unsupported
    \/ FromFd
    \/ SetRaw
    \/ Spawn
    \/ Poll
    \/ Restore
    \/ Store
    \/ ReaderFlush
    \/ ReaderRead
    \/ ReaderSend

SpecWatch == WatchInit /\ [][WatchNext]_vars

\* ================================================================== claims
\* ------------------------------------------------ vocabulary of the claims
\* s with every quote written twice and nothing else changed
RECURSIVE Doubled(_)
Doubled(s) ==
    IF Len(s) = 0 THEN << >>
    ELSE (IF Head(s) = Quote THEN <<Quote, Quote>> ELSE <<Head(s)>>) \o Doubled(Tail(s))

\* t with every pair of adjacent quotes read as one quote
RECURSIVE Undoubled(_)
Undoubled(t) ==
    IF Len(t) = 0 THEN << >>
    ELSE IF Head(t) = Quote /\ Len(t) >= 2 /\ t[2] = Quote THEN <<Quote>> \o Undoubled(Drop(t, 2))
    ELSE <<Head(t)>> \o Undoubled(Tail(t))

\* every quote of t is one of a pair
RECURSIVE QuotesPaired(_)
QuotesPaired(t) ==
    IF Len(t) = 0 THEN TRUE
    ELSE IF Head(t) # Quote THEN QuotesPaired(Tail(t))
    ELSE Len(t) >= 2 /\ t[2] = Quote /\ QuotesPaired(Drop(t, 2))

Contains(s, c) == \E k \in 1..Len(s) : s[k] = c

\* the symbol of a comparison intent
Symbol(o) ==
    CASE o = "Eq"   -> <<"=">>
      [] o = "NEq"  -> <<"<", ">">>
      [] o = "Gt"   -> <<">">>
      [] o = "GtEq" -> <<">", "=">>
      [] o = "Lt"   -> <<"<">>
      [] o = "LtEq" -> <<"<", "=">>

\* what precedes the literal in out: a comparison for dbfmt_comp, nothing else
Prefix == IF call = "dbfmt_comp" THEN <<" ">> \o Symbol(op) \o <<" ">> ELSE << >>

Literal == Drop(out, Len(Prefix))

Formatted == call # "none" /\ input.present

\* t is the 'Y-m-d H:M:S' text of the wall clock reading wall seconds
IsWallClockText(t, wall) ==
    /\ Len(t) = 19
    /\ t[5] = "-" /\ t[8] = "-" /\ t[11] = " " /\ t[14] = ":" /\ t[17] = ":"
    /\ \A k \in (1..19) \ {5, 8, 11, 14, 17} : t[k] \in {DigitChars[j] : j \in 1..10}
    /\ Num(SubSeq(t, 6, 7)) \in 1..12
    /\ Num(SubSeq(t, 9, 10)) \in 1..31
    /\ Num(SubSeq(t, 12, 13)) \in 0..23
    /\ Num(SubSeq(t, 15, 16)) \in 0..59
    /\ Num(SubSeq(t, 18, 19)) \in 0..59
    /\ parse_ymd_hms(t) = wall

\* the 19 characters between datetime(' and the closing quote
DatetimeBody(lit) == SubSeq(lit, Len(DatetimeOpen) + 1, Len(DatetimeOpen) + 19)

DatetimeTail(lit) == Drop(lit, Len(DatetimeOpen) + 19)

\* C1: for a text value s (String or &str), dbfmt_t(s) is a quote, s with every
\* quote doubled and nothing else changed, and a quote; un-doubling what is
\* between the outer quotes gives s back, no quote inside stands alone, and the
\* store reads the literal as s.
C1_TextLiteralRoundTrip ==
    /\ (call = "dbfmt_t" /\ input.ty \in TextTypes) =>
          /\ out = <<Quote>> \o Doubled(input.text) \o <<Quote>>
          /\ Undoubled(SubSeq(out, 2, Len(out) - 1)) = input.text
          /\ QuotesPaired(SubSeq(out, 2, Len(out) - 1))
    /\ (call = "dbfmt_t" /\ input.ty \in TextTypes /\ written) => stored = input.text

C1_Witness ==
    /\ call = "dbfmt_t"
    /\ input.ty = "String"
    /\ input.text = <<Quote, "a", Quote>>
    /\ written

\* C2: for a present value and every intent, dbfmt_comp gives a space, the
\* symbol of the intent, a space, and then exactly the text dbfmt_t gives.
C2_ComparisonOfPresent ==
    (call = "dbfmt_comp" /\ input.present) =>
        out = <<" ">> \o Symbol(op) \o <<" ">> \o dbfmt_t(input)

C2_Witness ==
    /\ call = "dbfmt_comp"
    /\ input.ty = "&str"
    /\ input.present
    /\ Contains(input.text, Quote)
    /\ op = "LtEq"

\* C3: for an absent value of any type, dbfmt_comp gives " IS NOT NULL" for NEq
\* and " IS NULL" for every other intent, and never a comparison symbol.
C3_ComparisonOfAbsent ==
    (call = "dbfmt_comp" /\ ~input.present) =>
        /\ op = "NEq" => out = <<" ", "I", "S", " ", "N", "O", "T", " ", "N", "U", "L", "L">>
        /\ op # "NEq" => out = <<" ", "I", "S", " ", "N", "U", "L", "L">>
        /\ \A k \in 1..Len(out) : out[k] \notin {"=", "<", ">"}

C3_Witness ==
    /\ call = "dbfmt_comp"
    /\ ~input.present
    /\ input.ty = "DateTime<Local>"
    /\ op = "GtEq"

\* C4: dbfmt gives exactly NULL for an absent value whatever the wrapped type,
\* and for a present value the text dbfmt_t gives, with no comparison prefix.
C4_OptionalFormat ==
    call = "dbfmt" =>
        /\ ~input.present => out = <<"N", "U", "L", "L">>
        /\ input.present => out = dbfmt_t(input)
        /\ (input.present /\ input.ty \in TextTypes) => Head(out) = Quote
        /\ (input.present /\ input.ty \in TimeTypes) => StartsWith(out, DatetimeOpen)

C4_Witness ==
    /\ call = "dbfmt"
    /\ ~input.present
    /\ input.ty = "String"

\* C5 as stated: for a local-zoned timestamp the digits inside
\* datetime('...', 'utc') are the UTC wall-clock reading of the instant.
C5_LocalDigitsAreUtc ==
    (Formatted /\ input.ty = "DateTime<Local>") =>
        /\ StartsWith(Literal, DatetimeOpen)
        /\ DatetimeTail(Literal) = DatetimeCloseUtc
        /\ IsWallClockText(DatetimeBody(Literal), input.secs)

\* C5 as amended: for a local-zoned timestamp the digits inside
\* datetime('...', 'utc') are the local wall-clock reading of the instant (the
\* UTC reading plus the value's offset); the conversion to UTC is left to the
\* store's 'utc' modifier.
C5_LocalDigitsAreLocal ==
    (Formatted /\ input.ty = "DateTime<Local>") =>
        /\ StartsWith(Literal, DatetimeOpen)
        /\ DatetimeTail(Literal) = DatetimeCloseUtc
        /\ IsWallClockText(DatetimeBody(Literal), input.secs + tz_offset)

C5_Witness ==
    /\ call = "dbfmt_t"
    /\ input.ty = "DateTime<Local>"
    /\ tz_offset = 13 * 3600
    /\ input.secs = Instant(2023, 12, 25, 14, 30, 45)

\* C6: for a UTC timestamp the literal is datetime('<Y-m-d H:M:S>') with the
\* UTC wall-clock reading cut to the second: the sub-second component does not
\* change the literal.
C6_UtcSecondPrecision ==
    (Formatted /\ input.ty = "DateTime<Utc>") =>
        /\ StartsWith(Literal, DatetimeOpen)
        /\ DatetimeTail(Literal) = <<Quote, ")">>
        /\ IsWallClockText(DatetimeBody(Literal), input.secs)
        /\ \A n \in Nanos : Literal = dbfmt_t([input EXCEPT !.nanos = n])

C6_Witness ==
    /\ call = "dbfmt_t"
    /\ input.ty = "DateTime<Utc>"
    /\ input.nanos = 999999999
    /\ input.secs = Instant(2023, 12, 31, 23, 59, 59)

\* C7: for a whole-second instant and any local offset, the literal of the
\* instant as a UTC timestamp and the literal of it as a local-zoned timestamp
\* evaluate in the store to the same UTC wall-clock text, and reading that text
\* back as UTC, or as local by adding the offset, gives the original instant.
C7_TimestampRoundTrip ==
    (written /\ input.ty \in TimeTypes /\ input.nanos = 0) =>
        /\ IsWallClockText(stored, input.secs)
        /\ stored = sqlite_eval(dbfmt_t(TimeValue("DateTime<Utc>", input.secs, 0, 0)), tz_offset)
        /\ stored = sqlite_eval(dbfmt_t(TimeValue("DateTime<Local>", input.secs, 0, tz_offset)), tz_offset)
        /\ readback.done =>
              /\ readback.utc_secs = input.secs
              /\ readback.local_secs = input.secs
              /\ readback.local_wall = input.secs + tz_offset

C7_Witness ==
    /\ readback.done
    /\ input.ty = "DateTime<Local>"
    /\ input.nanos = 0
    /\ tz_offset = 5 * 3600 + 1800
    /\ input.secs = Instant(2023, 12, 31, 23, 59, 59)

\* C8: a value of any other type is given as its Display text, unchanged, with
\* no quotes added and nothing escaped, after the entry point's prefix.
C8_FallbackIsDisplay ==
    (Formatted /\ input.ty \notin TextTypes \cup TimeTypes) =>
        /\ Literal = input.text
        /\ out = Prefix \o input.text

C8_Witness ==
    /\ call = "dbfmt_t"
    /\ input.ty = "Display"
    /\ input.text = <<"a", Quote, "b">>


\* the call ran its statement: the file opened and the statement prepared
Ran == db.can_open /\ db.sql_ok

IsOkNone(r) == r.tag = "Ok" /\ ~r.val.some

IsErr(r, e) == r.tag = "Err" /\ r.err = e

\* C9: for query_to_i64 and for query_single_row_to_tuple a statement that
\* yields zero rows is no error: the result is Ok(None) then, and only then.
C9_NoneIffNoRows ==
    d_call \in {"query_to_i64", "query_single_row_to_tuple"} =>
        (IsOkNone(d_result) <=> (Ran /\ Len(db.rows) = 0))

\* C10: query_to_string over a statement that yields zero rows returns the
\* no-rows error, never Ok(None); Ok(None) is returned only when column 0 of
\* row 0 holds NULL.
C10_StringNoRowsIsError ==
    d_call = "query_to_string" =>
        /\ (Ran /\ Len(db.rows) = 0) => IsErr(d_result, "QueryReturnedNoRows")
        /\ IsOkNone(d_result) <=> (Ran /\ Len(db.rows) > 0 /\ db.rows[1].cell.kind = "Null")

C10_Witness ==
    /\ d_call = "query_to_string"
    /\ Ran
    /\ Len(db.rows) = 0
    /\ IsErr(d_result, "QueryReturnedNoRows")


\* the rows whose conversion fails, by position
FailingRows == {k \in 1..Len(db.rows) : db.rows[k].conv # "Ok"}

FirstFailing == CHOOSE k \in FailingRows : \A j \in FailingRows : k <= j

\* C11: query_single_row_to_tuple over a statement whose first row fails the
\* conversion returns exactly the conversion's error, whatever that error is,
\* and never Ok(None) or Ok(Some(_)).
C11_ConversionErrorSurfaces ==
    (d_call = "query_single_row_to_tuple" /\ Ran /\ Len(db.rows) > 0 /\ db.rows[1].conv # "Ok") =>
        IsErr(d_result, db.rows[1].conv)

\* C12: query_to_tuples never returns a partial sequence: when some row fails
\* its conversion the result is the error of the first failing row, and the
\* result is Ok only when every row converted.
C12_NoPartialSequence ==
    (d_call = "query_to_tuples" /\ Ran) =>
        /\ FailingRows # {} => IsErr(d_result, db.rows[FirstFailing].conv)
        /\ d_result.tag = "Ok" <=> FailingRows = {}

C12_Witness ==
    /\ d_call = "query_to_tuples"
    /\ Ran
    /\ Len(db.rows) >= 2
    /\ db.rows[1].conv = "Ok"
    /\ db.rows[2].conv = "InvalidColumnType"
    /\ IsErr(d_result, "InvalidColumnType")

\* C13: when every row converts, query_to_tuples returns one element per
\* result row, element i being the conversion of row i.
C13_AllRowsInOrder ==
    (d_call = "query_to_tuples" /\ Ran /\ FailingRows = {}) =>
        /\ d_result.tag = "Ok"
        /\ Len(d_result.val) = Len(db.rows)
        /\ \A i \in 1..Len(db.rows) : d_result.val[i] = db.rows[i].cell

C13_Witness ==
    /\ d_call = "query_to_tuples"
    /\ Ran
    /\ Len(db.rows) >= 2
    /\ FailingRows = {}
    /\ db.rows[1].cell.kind = "Integer"
    /\ db.rows[2].cell.kind = "Null"
    /\ d_result.tag = "Ok"


\* the integer a decimal text denotes: an optional sign and one or more digits
IsDecimal(t) ==
    \/ IsDigits(t)
    \/ Len(t) > 1 /\ t[1] \in {"-", "+"} /\ IsDigits(Tail(t))

DecimalValue(t) ==
    IF t[1] = "-" THEN 0 - Num(Tail(t))
    ELSE IF t[1] = "+" THEN Num(Tail(t))
    ELSE Num(t)

\* the integer part of r tenths, cut toward zero
TowardZero(r) ==
    CHOOSE t \in (0 - 100)..100 :
        /\ t * r >= 0
        /\ (IF r < 0 THEN 0 - r ELSE r) - 10 * (IF t < 0 THEN 0 - t ELSE t) \in 0..9

\* t is the decimal text of r tenths: sign, integer digits, and a point and one
\* digit when r is not whole
IsTenthsText(t, r) ==
    LET a    == IF r < 0 THEN 0 - r ELSE r
        body == IF r < 0 THEN Tail(t) ELSE t
    IN  /\ Len(t) > 0
        /\ r < 0 <=> t[1] = "-"
        /\ IF a % 10 = 0
           THEN IsDigits(body) /\ Num(body) * 10 = a
           ELSE /\ Len(body) >= 3
                /\ body[Len(body) - 1] = "."
                /\ IsDigits(SubSeq(body, 1, Len(body) - 2))
                /\ IsDigits(<<body[Len(body)]>>)
                /\ Num(SubSeq(body, 1, Len(body) - 2)) * 10 + Num(<<body[Len(body)]>>) = a

LowerHex == <<"0", "1", "2", "3", "4", "5", "6", "7", "8", "9", "a", "b", "c", "d", "e", "f">>

LowerHexValue(c) == (CHOOSE n \in 1..16 : LowerHex[n] = c) - 1

\* t is the lowercase hexadecimal text of the bytes b, two digits a byte
IsHexOf(t, b) ==
    /\ Len(t) = 2 * Len(b)
    /\ \A k \in 1..Len(t) : \E n \in 1..16 : LowerHex[n] = t[k]
    /\ \A i \in 1..Len(b) : LowerHexValue(t[2 * i - 1]) * 16 + LowerHexValue(t[2 * i]) = b[i]

FirstCell == db.rows[1].cell

OnlyFirstRow == [db EXCEPT !.rows = <<db.rows[1]>>]

IsOkSome(r) == r.tag = "Ok" /\ r.val.some

\* C14: query_to_i64 reads only column 0 of row 0 and maps it by stored kind:
\* an integer as is, a real cut toward zero, a text as the integer it spells
\* and an error when it spells none, a blob and NULL as errors (never Ok(None)).
C14_IntegerByKind ==
    (d_call = "query_to_i64" /\ Ran /\ Len(db.rows) > 0) =>
        /\ FirstCell.kind = "Integer" => IsOkSome(d_result) /\ d_result.val.v = FirstCell.int
        /\ FirstCell.kind = "Real" => IsOkSome(d_result) /\ d_result.val.v = TowardZero(FirstCell.int)
        /\ (FirstCell.kind = "Text" /\ IsDecimal(FirstCell.text)) =>
              IsOkSome(d_result) /\ d_result.val.v = DecimalValue(FirstCell.text)
        /\ (FirstCell.kind = "Text" /\ ~IsDecimal(FirstCell.text)) => d_result.tag = "Err"
        /\ FirstCell.kind \in {"Blob", "Null"} => d_result.tag = "Err"
        /\ d_result = query_to_i64(OnlyFirstRow)

C14_Witness ==
    /\ d_call = "query_to_i64"
    /\ Ran
    /\ Len(db.rows) >= 2
    /\ FirstCell.kind = "Real"
    /\ FirstCell.int = 0 - 19
    /\ IsOkSome(d_result)
    /\ d_result.val.v = 0 - 1

\* C15: query_to_string reads only column 0 of row 0 and maps it by stored
\* kind, none of them to an error: NULL to Ok(None), an integer and a real to
\* their decimal text, a blob to the lowercase hexadecimal text of its bytes, two
\* digits a byte in byte order, a text to itself.
C15_StringByKind ==
    (d_call = "query_to_string" /\ Ran /\ Len(db.rows) > 0) =>
        /\ d_result.tag = "Ok"
        /\ FirstCell.kind = "Null" <=> ~d_result.val.some
        /\ FirstCell.kind = "Integer" =>
              /\ IsDecimal(d_result.val.v)
              /\ d_result.val.v[1] # "+"
              /\ DecimalValue(d_result.val.v) = FirstCell.int
        /\ FirstCell.kind = "Real" => IsTenthsText(d_result.val.v, FirstCell.int)
        /\ FirstCell.kind = "Blob" => IsHexOf(d_result.val.v, FirstCell.bytes)
        /\ FirstCell.kind = "Text" => d_result.val.v = FirstCell.text
        /\ d_result = query_to_string(OnlyFirstRow)

C15_Witness ==
    /\ d_call = "query_to_string"
    /\ Ran
    /\ Len(db.rows) >= 2
    /\ FirstCell.kind = "Blob"
    /\ d_result.tag = "Ok"
    /\ d_result.val.v = <<"f", "f", "0", "0", "e", "7", "6", "7">>


\* C16: query_single_row_to_tuple inspects only the first result row: the
\* conversion is invoked at most once a call, on row 0, and the result is the
\* one the first row alone gives, whatever rows follow it.
C16_OnlyFirstRowInspected ==
    d_call = "query_single_row_to_tuple" =>
        /\ Len(d_converted) <= 1
        /\ \A i \in 1..Len(d_converted) : d_converted[i] = 1
        /\ (Ran /\ Len(db.rows) > 0) => d_result = query_single_row_to_tuple(OnlyFirstRow)

C16_Witness ==
    /\ d_call = "query_single_row_to_tuple"
    /\ Ran
    /\ Len(db.rows) >= 2
    /\ db.rows[1].conv = "Ok"
    /\ db.rows[2].conv = "InvalidColumnType"
    /\ IsOkSome(d_result)
    /\ d_converted = <<1>>


\* C17: each decoder entry point opens a connection of its own and has released
\* it when it returns, on every exit path (success, zero rows, failure to open,
\* to prepare or to convert): nothing is open after a return, only the running
\* call's connection is open during it, and no two calls use the same one.
C17_ConnectionScopedToCall ==
    /\ c_pc = "returned" => conns = {}
    /\ c_pc = "open" => conns = {c_used[Len(c_used)]}
    /\ \A i, j \in 1..Len(c_used) : (i < j /\ c_used[i] # 0) => c_used[i] # c_used[j]

C17_Witness ==
    /\ c_pc = "returned"
    /\ Len(c_used) = 2
    /\ c_used[1] # 0
    /\ d_call = "query_to_tuples"
    /\ IsErr(d_result, "InvalidColumnType")
    /\ conns = {}


\* the text a pair puts in place of a placeholder
PairText(k) == w_pairs[k].field \o w_pairs[k].value

\* occurrences of {} in t, counted left to right without overlap
RECURSIVE CountBracePairs(_)
CountBracePairs(t) ==
    IF Len(t) < 2 THEN 0
    ELSE IF t[1] = "{" /\ t[2] = "}" THEN 1 + CountBracePairs(Drop(t, 2))
    ELSE CountBracePairs(Tail(t))

\* t with the occurrences of {} replaced by the pair texts k+1, k+2, ... and
\* every other character kept
RECURSIVE FillBracePairs(_, _)
FillBracePairs(t, k) ==
    IF Len(t) = 0 THEN << >>
    ELSE IF Len(t) >= 2 /\ t[1] = "{" /\ t[2] = "}"
    THEN PairText(k + 1) \o FillBracePairs(Drop(t, 2), k + 1)
    ELSE <<Head(t)>> \o FillBracePairs(Tail(t), k)

\* C18 as stated: with n {} placeholders and n pairs the result is the template
\* with placeholder i replaced by field i and value i, every other character
\* unchanged; a different number of pairs is rejected at compile time.
C18_PlaceholdersFilled ==
    w_result # NotExpanded =>
        IF Len(w_pairs) = CountBracePairs(w_template)
        THEN w_result = Expanded(FillBracePairs(w_template, 0))
        ELSE w_result = CompileError

\* the pieces of a format string: {} a placeholder, {{ and }} a brace, any
\* other character itself; a brace that is part of none of these is malformed
RECURSIVE Pieces(_)
Pieces(t) ==
    IF Len(t) = 0 THEN << >>
    ELSE IF Len(t) >= 2 /\ <<t[1], t[2]>> \in {<<"{", "{">>, <<"}", "}">>, <<"{", "}">>}
    THEN <<SubSeq(t, 1, 2)>> \o Pieces(Drop(t, 2))
    ELSE IF Head(t) \in {"{", "}"} THEN <<"malformed">>
    ELSE <<SubSeq(t, 1, 1)>> \o Pieces(Tail(t))

WellFormed(t) == \A k \in 1..Len(Pieces(t)) : Pieces(t)[k] # "malformed"

PlaceholderCount(t) == Cardinality({k \in 1..Len(Pieces(t)) : Pieces(t)[k] = <<"{", "}">>})

\* the pieces written out: placeholder i as pair i, an escaped brace as one brace
RECURSIVE WriteOut(_, _)
WriteOut(ps, k) ==
    IF Len(ps) = 0 THEN << >>
    ELSE IF Head(ps) = <<"{", "}">> THEN PairText(k + 1) \o WriteOut(Tail(ps), k + 1)
    ELSE <<Head(ps)[1]>> \o WriteOut(Tail(ps), k)

\* C18 as amended: for a well-formed template whose placeholders are all {},
\* with n placeholders and n pairs, the result is the template with placeholder
\* i replaced by field i immediately followed by value i, the escapes {{ and }}
\* written as one brace and every other character unchanged; a different number
\* of pairs, or a malformed template, is rejected at compile time.
C18_FormatStringFilled ==
    w_result # NotExpanded =>
        IF WellFormed(w_template) /\ Len(w_pairs) = PlaceholderCount(w_template)
        THEN w_result = Expanded(WriteOut(Pieces(w_template), 0))
        ELSE w_result = CompileError

C18_Witness ==
    /\ w_template = <<"{", "}", "w", "{", "}">>
    /\ Len(w_pairs) = 2
    /\ w_pairs[1].field = <<"c">>
    /\ w_pairs[2].field = <<"{">>
    /\ w_result = Expanded(<<"c", " ", "=", " ", "3", "w", "{", "}", "w">>)


\* the base's components are the first components of the path
BaseIsPrefix ==
    LET pc == components(p_path)
        bc == components(p_base)
    IN  Len(bc) <= Len(pc) /\ SubSeq(pc, 1, Len(bc)) = bc

IsNormal(c) == c.kind = "Normal"

\* the names of the path's normal components after the base's
RemainingNames ==
    LET pc == components(p_path)
        rem == SelectSeq(SubSeq(pc, Len(components(p_base)) + 1, Len(pc)), IsNormal)
    IN  [k \in 1..Len(rem) |-> rem[k].name]

RECURSIVE JoinBySlash(_)
JoinBySlash(names) ==
    IF Len(names) = 0 THEN << >>
    ELSE IF Len(names) = 1 THEN names[1]
    ELSE names[1] \o <<"/">> \o JoinBySlash(Tail(names))

\* C19: when the base's components are a prefix of the path's, the result is
\* the remaining normal components joined by "/", with no separator at either
\* end, and it is empty when the path equals the base.
C19_RemainingJoined ==
    (p_result # NotReturned /\ BaseIsPrefix) =>
        /\ p_result = Returned(JoinBySlash(RemainingNames))
        /\ p_result.text # << >> =>
               /\ Head(p_result.text) # "/"
               /\ p_result.text[Len(p_result.text)] # "/"
        /\ components(p_path) = components(p_base) => p_result.text = << >>

C19_Witness ==
    /\ p_path = <<"a", "/", ".", ".", "/", "a", "/", "a">>
    /\ p_base = <<"a">>
    /\ p_result = Returned(<<"a", "/", "a">>)


\* C20: whenever watch_for_quit has returned the flag is false; no step of the
\* function sets the flag; on Linux the step that clears the flag is taken with
\* the terminal carrying the attributes read at entry, and a returned call has
\* left the loop on a quit key or on a disconnected sender with them restored.
C20_FlagClearedAfterRestore ==
    /\ [](main_pc = "returned" =>
            /\ keep_going = FALSE
            /\ os = "linux" => ended_by \in {"quit", "disconnected"} /\ tty = termios)
    /\ [][keep_going' => keep_going]_vars
    /\ [][(os = "linux" /\ main_pc # "returned" /\ main_pc' = "returned") =>
              (tty = termios /\ termios # NoTermios)]_vars

C20_Witness ==
    /\ os = "linux"
    /\ main_pc = "returned"
    /\ ended_by = "disconnected"
    /\ reader_pc = "panicked"
    /\ termios = {"ICANON", "ECHO", "ISIG"}
    /\ tty = termios
    /\ keep_going = FALSE


QuitKeys == {KeyLowerQ, KeyUpperQ}

\* try_recv would find the channel empty with the sender still there
ObservesEmpty == chan = << >> /\ tx_alive

\* try_recv would find the channel empty with the sender gone
ObservesDisconnected == chan = << >> /\ ~tx_alive

\* a quit key stands in the batch, but not first
QuitKeyNotFirst ==
    /\ key_seq # << >>
    /\ key_seq[1] \notin QuitKeys
    /\ \E k \in 2..Len(key_seq) : key_seq[k] \in QuitKeys

\* C21: under any interleaving of the reader thread and the polling loop, the
\* loop is left only from a state where the channel is found empty and the
\* batch is non-empty with a quit key (113 or 81) first, or where the sender is
\* found disconnected; the batch only grows by a received byte or is cleared
\* whole, and a batch with a quit key that is not first, met by an empty
\* channel, is cleared without leaving the loop.
C21_LoopEndsOnlyOnQuitFirstOrDisconnect ==
    /\ [][(main_pc = "poll" /\ main_pc' # "poll") =>
              \/ ObservesEmpty /\ key_seq # << >> /\ key_seq[1] \in QuitKeys
              \/ ObservesDisconnected]_vars
    /\ [][\/ key_seq' = key_seq
          \/ key_seq' = << >>
          \/ chan # << >> /\ key_seq' = Append(key_seq, Head(chan))]_vars
    /\ [][(main_pc = "poll" /\ ObservesEmpty /\ QuitKeyNotFirst
             /\ <<key_seq, main_pc>>' # <<key_seq, main_pc>>) =>
              (key_seq' = << >> /\ main_pc' = "poll" /\ discarded' = key_seq)]_vars
    /\ []((os = "linux" /\ ended_by = "quit") => key_seq # << >> /\ key_seq[1] \in QuitKeys)

C21_Witness ==
    /\ os = "linux"
    /\ main_pc = "poll"
    /\ discarded = <<97, KeyLowerQ>>
    /\ key_seq = << >>
    /\ ended_by = "none"
    /\ tx_alive

====
